---- MODULE Spec2Model ----
(***************************************************************************)
(* Model of vote_swap.py: the Streamlit page that loads the House results, *)
(* computes the winner of every district (recalculate_winners), colours    *)
(* the map (get_fill_color) and, when the "Redistribute Votes" button is   *)
(* pressed, moves the votes of the selected from-parties to the to-party   *)
(* district by district and recomputes the winners.                        *)
(*                                                                         *)
(* A DataFrame is a sequence of rows (records); the row order is the frame *)
(* order.  Every user interaction reruns the whole script, so every action *)
(* of Spec is one complete script run.                                     *)
(***************************************************************************)
EXTENDS Integers, Sequences, FiniteSets, TLC

\* ---------------------------------------------------------------------
\* Bounds of the model
\* ---------------------------------------------------------------------
\* rows of house_results_2024.csv
MaxRecords == 3
\* largest vote count of one row of the file
MaxVotes == 1
\* percentages given to get_fill_color are the multiples of 1/PctDen in 0..100
PctDen == 2

\* ---------------------------------------------------------------------
\* Values of the columns
\* ---------------------------------------------------------------------
\* the GEOID strings, in the order pandas sorts them
GEOIDs == <<"1", "2">>
\* the party strings, in the order sorted() puts them
PartyOrder == <<"Democrat", "Green", "Republican">>
Parties == {PartyOrder[i] : i \in DOMAIN PartyOrder}
\* Python's None (st.selectbox returns it when it has no options)
None == "None"

Min(a, b) == IF a <= b THEN a ELSE b
Max(a, b) == IF a >= b THEN a ELSE b

Range(s) == {s[i] : i \in DOMAIN s}

VARIABLES
    csv_file,               \* the rows of ./house_results_2024.csv
    house_results,          \* the frame read by the current script run
    from_parties,           \* value of the "From Party(ies)" multiselect
    to_party,               \* value of the "To Party" selectbox
    redistribution_clicked, \* value of the "Redistribute Votes" button
    initial_results,        \* recalculate_winners(house_results)
    redistributed,          \* frame produced by the redistribution loop
    updated_results,        \* recalculate_winners(redistributed)
    fill                    \* the last call of get_fill_color and its result

vars == <<csv_file, house_results, from_parties, to_party,
          redistribution_clicked, initial_results, redistributed,
          updated_results, fill>>

pageVars == <<csv_file, house_results, from_parties, to_party,
              redistribution_clicked, initial_results, redistributed,
              updated_results>>

\* ---------------------------------------------------------------------
\* The vote file
\* ---------------------------------------------------------------------
\* the (GEOID, candidate) pairs a row of the file can have, in file order:
\* district 1 has up to three candidates, district 2 is uncontested.  A name
\* is free text, so it may read like the name the loop gives a new row.
Slots ==
    <<[GEOID |-> "1", candidate |-> "Alice"],
      [GEOID |-> "1", candidate |-> "Bob"],
      [GEOID |-> "1", candidate |-> "Democrat Candidate"],
      [GEOID |-> "2", candidate |-> "Carol"]>>

RECURSIVE SortedSeq(_)
SortedSeq(S) ==
    IF S = {} THEN <<>>
    ELSE LET m == CHOOSE x \in S : \A y \in S : x <= y
         IN <<m>> \o SortedSeq(S \ {m})

Reverse(s) == [i \in DOMAIN s |-> s[Len(s) + 1 - i]]

\* the rows of the slots S with the parties and votes f, in file order
Table(S, f) ==
    LET ks == SortedSeq(S)
    IN [i \in DOMAIN ks |->
          [GEOID |-> Slots[ks[i]].GEOID,
           candidate |-> Slots[ks[i]].candidate,
           party |-> f[ks[i]][1],
           votes |-> f[ks[i]][2]]]

\* the vote files of the data model: non-negative votes, at most one row per
\* (GEOID, candidate), a party free to have several rows in a district; the
\* file is sorted by (GEOID, candidate), ascending or descending
IsCsvFile(file) ==
    \E S \in {T \in SUBSET (DOMAIN Slots) : Cardinality(T) \in 1..MaxRecords} :
        \E f \in [S -> Parties \X (0..MaxVotes)] :
            \E descending \in BOOLEAN :
                file = IF descending THEN Reverse(Table(S, f)) ELSE Table(S, f)

\* pd.read_csv and astype(str): the rows of the file, GEOID as a string
read_csv(file) == file

\* ---------------------------------------------------------------------
\* recalculate_winners
\* ---------------------------------------------------------------------
RECURSIVE SumVotes(_)
SumVotes(rows) ==
    IF rows = <<>> THEN 0 ELSE Head(rows).votes + SumVotes(Tail(rows))

\* df[df['GEOID'] == g]
GroupRows(df, g) == SelectSeq(df, LAMBDA r : r.GEOID = g)

\* Series.unique(): the distinct GEOIDs in order of first appearance
RECURSIVE Unique(_)
Unique(df) ==
    IF df = <<>> THEN <<>>
    ELSE <<Head(df).GEOID>> \o
         Unique(SelectSeq(Tail(df), LAMBDA r : r.GEOID # Head(df).GEOID))

\* the group keys of groupby('GEOID'), sorted
GroupKeys(df) == SelectSeq(GEOIDs, LAMBDA g : \E i \in DOMAIN df : df[i].GEOID = g)

\* df.assign(total_votes=df['votes'].sum()) on one group
AssignTotal(rows) ==
    [i \in DOMAIN rows |->
        [GEOID |-> rows[i].GEOID, candidate |-> rows[i].candidate,
         party |-> rows[i].party, votes |-> rows[i].votes,
         total_votes |-> SumVotes(rows)]]

\* groupby('GEOID').apply(...).reset_index(drop=True): the groups one after
\* the other in key order, the rows of a group in frame order
RECURSIVE GroupApply(_, _)
GroupApply(df, keys) ==
    IF keys = <<>> THEN <<>>
    ELSE AssignTotal(GroupRows(df, Head(keys))) \o GroupApply(df, Tail(keys))

Grouped(df) == GroupApply(df, GroupKeys(df))

\* a variant that takes the last row with the maximum
IdxMaxLast(grouped, g) ==
    CHOOSE i \in DOMAIN grouped :
        /\ grouped[i].GEOID = g
        /\ \A j \in DOMAIN grouped :
              grouped[j].GEOID = g =>
                 /\ grouped[j].votes <= grouped[i].votes
                 /\ (j > i => grouped[j].votes < grouped[i].votes)

\* groupby('GEOID')['votes'].idxmax(): the first row of the group with the
\* maximum votes
IdxMax(grouped, g) ==
    CHOOSE i \in DOMAIN grouped :
        /\ grouped[i].GEOID = g
        /\ \A j \in DOMAIN grouped :
              grouped[j].GEOID = g =>
                 /\ grouped[j].votes <= grouped[i].votes
                 /\ (j < i => grouped[j].votes < grouped[i].votes)

\* a float NaN, the result of 0 / 0 on a pandas column
NaN == [num |-> 0, den |-> 0]
IsNaN(x) == x.den = 0

\* the quotient taken the wrong way round
PercentageInverted(winner_votes, total_votes) ==
    [num |-> total_votes * 100, den |-> winner_votes]

\* (winner_votes / total_votes) * 100 as the fraction num / den
Percentage(winner_votes, total_votes) ==
    IF total_votes = 0 THEN NaN
    ELSE [num |-> winner_votes * 100, den |-> total_votes]

\* grouped.loc[idx] renamed, with winner_percentage: one row per GEOID
Winners(grouped, g) ==
    LET w == grouped[IdxMax(grouped, g)]
    IN [GEOID |-> g,
        winner_candidate |-> w.candidate,
        winner_party |-> w.party,
        winner_votes |-> w.votes,
        winner_percentage |-> Percentage(w.votes, w.total_votes)]

\* grouped.merge(winners[...], on='GEOID', how='left')
recalculate_winners(results_df) ==
    LET grouped == Grouped(results_df)
    IN [i \in DOMAIN grouped |->
          LET w == Winners(grouped, grouped[i].GEOID)
          IN [GEOID |-> grouped[i].GEOID,
              candidate |-> grouped[i].candidate,
              party |-> grouped[i].party,
              votes |-> grouped[i].votes,
              total_votes |-> grouped[i].total_votes,
              winner_candidate |-> w.winner_candidate,
              winner_party |-> w.winner_party,
              winner_votes |-> w.winner_votes,
              winner_percentage |-> w.winner_percentage]]

\* ---------------------------------------------------------------------
\* get_fill_color
\* ---------------------------------------------------------------------
\* base_colors.get(party, (128,128,128))
BaseColor(party) ==
    IF party = "Democrat" THEN <<0, 0, 255>>
    ELSE IF party = "Republican" THEN <<255, 0, 0>>
    ELSE <<128, 128, 128>>

\* max(0.3, min(winner_percentage/100, 1.0)) as the fraction num / den.
\* With a NaN percentage min(nan, 1.0) is nan and max(0.3, nan) is 0.3.
Intensity(pct) ==
    IF IsNaN(pct) THEN [num |-> 3, den |-> 10]
    ELSE [num |-> Max(300 * pct.den, Min(pct.num * 10, 1000 * pct.den)),
          den |-> 1000 * pct.den]

\* a blend that adds the white share with the weight of the base colour
ChannelNoComplement(base, intensity) ==
    {(base * intensity.num + intensity.num * 255) \div intensity.den}

\* int(base * intensity + (1 - intensity) * 255).  The sum is a float: when
\* its exact value is a whole number q > 0 the float may fall just below it
\* and int() then gives q - 1, so both are possible results.
Channel(base, intensity) ==
    LET x == base * intensity.num + (intensity.den - intensity.num) * 255
        q == x \div intensity.den
    IN IF x % intensity.den = 0 /\ q > 0 THEN {q - 1, q} ELSE {q}

\* the calls get_fill_color(party, winner_percentage) with their results
get_fill_color(party, winner_percentage) ==
    LET base == BaseColor(party)
        intensity == Intensity(winner_percentage)
    IN {[party |-> party, pct |-> winner_percentage,
         r |-> r, g |-> g, b |-> b, intensity |-> intensity] :
           r \in Channel(base[1], intensity),
           g \in Channel(base[2], intensity),
           b \in Channel(base[3], intensity)}

\* ---------------------------------------------------------------------
\* The widgets
\* ---------------------------------------------------------------------
\* sorted(house_results['party'].unique().tolist())
all_parties(df) ==
    SelectSeq(PartyOrder, LAMBDA p : \E i \in DOMAIN df : df[i].party = p)

\* [p for p in all_parties if p not in from_parties]
Options(df, from) == SelectSeq(all_parties(df), LAMBDA p : p \notin from)

\* st.selectbox shows its first option; without options it returns None
SelectboxDefault(options) == IF options = <<>> THEN None ELSE options[1]

\* ---------------------------------------------------------------------
\* The redistribution loop
\* ---------------------------------------------------------------------
\* redistributed['party'] == to_party: pandas compares None to nothing, not
\* even to None
PartyEq(party, to) == to # None /\ party # None /\ party = to

\* f"{to_party}"
Format(to) == IF to = None THEN "None" ELSE to

\* one pass of the body of the for loop, for the district geoid_val
LoopBody(red, geoid_val, from, to) ==
    LET df_dist == GroupRows(red, geoid_val)
        from_votes == SumVotes(SelectSeq(df_dist, LAMBDA r : r.party \in from))
        zeroed == [i \in DOMAIN red |->
                     IF red[i].GEOID = geoid_val /\ red[i].party \in from
                     THEN [red[i] EXCEPT !.votes = 0]
                     ELSE red[i]]
        has_to == \E i \in DOMAIN zeroed :
                     zeroed[i].GEOID = geoid_val /\ PartyEq(zeroed[i].party, to)
        example_row == [GEOID |-> df_dist[1].GEOID,
                        candidate |-> Format(to) \o " Candidate",
                        party |-> to,
                        votes |-> from_votes]
    IN IF ~has_to
       THEN Append(zeroed, example_row)
       ELSE [i \in DOMAIN zeroed |->
               IF zeroed[i].GEOID = geoid_val /\ PartyEq(zeroed[i].party, to)
               THEN [zeroed[i] EXCEPT !.votes = @ + from_votes]
               ELSE zeroed[i]]

\* for geoid_val in redistributed['GEOID'].unique(): ...
RECURSIVE RedistributionLoop(_, _, _, _)
RedistributionLoop(red, geoids, from, to) ==
    IF geoids = <<>> THEN red
    ELSE RedistributionLoop(LoopBody(red, Head(geoids), from, to),
                            Tail(geoids), from, to)

\* the loop on a frame, as the script runs it
Redistribute(df, from, to) == RedistributionLoop(df, Unique(df), from, to)

\* the loop working on house_results itself: the writes made before the
\* first concat land in house_results
HouseResultsAliased(df, red) == SubSeq(red, 1, Len(df))

\* house_results after the loop has worked on house_results.copy()
HouseResultsAfterLoop(df, red) == df

\* ---------------------------------------------------------------------
\* The script runs
\* ---------------------------------------------------------------------
NoCall == [party |-> None, pct |-> NaN, r |-> 0, g |-> 0, b |-> 0,
           intensity |-> [num |-> 0, den |-> 1]]

\* one run of the script with the widget values from, to and clicked
Run(from, to, clicked) ==
    LET df == read_csv(csv_file)
        red == Redistribute(df, from, to)
    IN /\ from_parties' = from
       /\ to_party' = to
       /\ redistribution_clicked' = clicked
       /\ initial_results' = recalculate_winners(df)
       /\ redistributed' = IF clicked THEN red ELSE <<>>
       /\ updated_results' = IF clicked THEN recalculate_winners(red) ELSE <<>>
       /\ house_results' = IF clicked THEN HouseResultsAfterLoop(df, red) ELSE df
       /\ UNCHANGED <<csv_file, fill>>

\* the first run: nothing selected, button not pressed
Init ==
    /\ IsCsvFile(csv_file)
    /\ house_results = read_csv(csv_file)
    /\ from_parties = {}
    /\ to_party = SelectboxDefault(Options(house_results, {}))
    /\ redistribution_clicked = FALSE
    /\ initial_results = recalculate_winners(house_results)
    /\ redistributed = <<>>
    /\ updated_results = <<>>
    /\ fill = NoCall

\* the user changes the multiselect; the selectbox gets new options and
\* shows the first of them
SelectFromParties ==
    \E from \in SUBSET Range(all_parties(read_csv(csv_file))) :
        /\ from # from_parties
        /\ Run(from, SelectboxDefault(Options(read_csv(csv_file), from)), FALSE)

\* the user picks another option of the selectbox
SelectToParty ==
    \E to \in Range(Options(read_csv(csv_file), from_parties)) :
        /\ to # to_party
        /\ Run(from_parties, to, FALSE)

\* the user presses "Redistribute Votes"
RedistributeVotes == Run(from_parties, to_party, TRUE)

Next == SelectFromParties \/ SelectToParty \/ RedistributeVotes

Spec == Init /\ [][Next]_vars

\* ---------------------------------------------------------------------
\* get_fill_color on its own
\* ---------------------------------------------------------------------
\* the percentages 0, 1/PctDen, ..., 100 and NaN
ColorPercentages ==
    {[num |-> n, den |-> PctDen] : n \in 0..(100 * PctDen)} \cup {NaN}

ColorParties == Parties \cup {None}

InitColor ==
    /\ csv_file = <<>>
    /\ house_results = <<>>
    /\ from_parties = {}
    /\ to_party = None
    /\ redistribution_clicked = FALSE
    /\ initial_results = <<>>
    /\ redistributed = <<>>
    /\ updated_results = <<>>
    /\ fill = NoCall

GetFillColor ==
    /\ \E party \in ColorParties, pct \in ColorPercentages :
          fill' \in get_fill_color(party, pct)
    /\ UNCHANGED pageVars

NextColor == GetFillColor

SpecColor == InitColor /\ [][NextColor]_vars

\* ---------------------------------------------------------------------
\* Properties
\* ---------------------------------------------------------------------
Rows(df) == {df[i] : i \in DOMAIN df}
UnitsOf(df) == {df[i].GEOID : i \in DOMAIN df}

\* the votes of the district g in the first n rows of df
RECURSIVE TotalUpTo(_, _, _)
TotalUpTo(df, g, n) ==
    IF n = 0 THEN 0
    ELSE (IF df[n].GEOID = g THEN df[n].votes ELSE 0) + TotalUpTo(df, g, n - 1)

UnitTotal(df, g) == TotalUpTo(df, g, Len(df))

\* the votes of the from-parties in the district g
RECURSIVE FromUpTo(_, _, _, _)
FromUpTo(df, g, from, n) ==
    IF n = 0 THEN 0
    ELSE (IF df[n].GEOID = g /\ df[n].party \in from THEN df[n].votes ELSE 0)
         + FromUpTo(df, g, from, n - 1)

Transferred(df, g, from) == FromUpTo(df, g, from, Len(df))

\* C1: after the redistribution loop has run with a to-party that is a party
\* and is not among the from-parties, every district has the same vote total
\* as before the loop.
C1_TotalsPreserved ==
    (redistribution_clicked /\ to_party # None /\ to_party \notin from_parties)
    => \A g \in UnitsOf(house_results) :
          UnitTotal(redistributed, g) = UnitTotal(house_results, g)

\* C2: running the loop again on its own output, with the same from-parties
\* and to-party, gives that output back: no vote moves and no row is added.
C2_SecondPassChangesNothing ==
    redistribution_clicked
    => Redistribute(redistributed, from_parties, to_party) = redistributed

\* the row of results for the district g names as winner the first row of
\* input with the maximum votes of g; originals is the number of rows input
\* had before the loop appended its own
WinnerIsFirstMax(input, r, originals) ==
    \E i \in DOMAIN input :
        /\ input[i].GEOID = r.GEOID
        /\ r.winner_candidate = input[i].candidate
        /\ r.winner_party = input[i].party
        /\ r.winner_votes = input[i].votes
        /\ \A j \in DOMAIN input :
              input[j].GEOID = r.GEOID =>
                 /\ input[j].votes <= input[i].votes
                 /\ (j < i => input[j].votes < input[i].votes)
        /\ (\E j \in 1..originals :
               input[j].GEOID = r.GEOID /\ input[j].votes = input[i].votes)
           => i <= originals

AggregationCorrect(input, results, originals) ==
    /\ Len(results) = Len(input)
    /\ UnitsOf(results) = UnitsOf(input)
    /\ \A r \in Rows(results) :
          /\ r.total_votes = UnitTotal(input, r.GEOID)
          /\ WinnerIsFirstMax(input, r, originals)

\* C3: recalculate_winners gives every district of its input the sum of the
\* district's votes as total_votes and the first row with the maximum votes
\* as winner, so a row appended by the loop never beats an original row it
\* ties with; on the loaded frame and on the redistributed frame.
C3_WinnerIsFirstMaximum ==
    /\ AggregationCorrect(house_results, initial_results, Len(house_results))
    /\ redistribution_clicked =>
          AggregationCorrect(redistributed, updated_results, Len(house_results))

\* a row appended by the loop ties, with votes, with an original row at the
\* maximum of the district, and the original row is the winner
C3_Witness ==
    /\ redistribution_clicked
    /\ \E i \in (Len(house_results) + 1)..Len(redistributed) :
          \E j \in 1..Len(house_results) :
              /\ redistributed[j].GEOID = redistributed[i].GEOID
              /\ redistributed[j].votes = redistributed[i].votes
              /\ redistributed[i].votes > 0
              /\ \E r \in Rows(updated_results) :
                    /\ r.GEOID = redistributed[i].GEOID
                    /\ r.winner_votes = redistributed[i].votes
                    /\ r.winner_candidate # redistributed[i].candidate

\* C4: a district whose total_votes is 0 never gets an undefined (0/0)
\* winner_percentage.
C4_ZeroTotalHasNoUndefinedPercentage ==
    \A r \in Rows(initial_results) \cup Rows(updated_results) :
        r.total_votes = 0 => ~IsNaN(r.winner_percentage)

\* C5: the redistribution loop runs only with a to-party that is one of the
\* parties and is not among the from-parties.
C5_LoopRunsOnlyOnValidRequest ==
    redistribution_clicked
    => /\ to_party \notin from_parties
       /\ to_party # None
       /\ to_party \in Range(all_parties(house_results))

\* C6: with no from-party selected the loop gives back the loaded rows, and
\* no row is added.
C6_EmptyFromIsNoOp ==
    (redistribution_clicked /\ from_parties = {})
    => redistributed = house_results

\* C7: in every district with total_votes > 0 the winner_percentage is
\* winner_votes / total_votes * 100 and lies in [0, 100]; on the loaded
\* frame and on the redistributed frame.
C7_PercentageInRange ==
    \A r \in Rows(initial_results) \cup Rows(updated_results) :
        r.total_votes > 0 =>
            /\ ~IsNaN(r.winner_percentage)
            /\ r.winner_percentage.num * r.total_votes
                   = r.winner_votes * 100 * r.winner_percentage.den
            /\ 0 <= r.winner_percentage.num
            /\ r.winner_percentage.num <= 100 * r.winner_percentage.den

\* after a redistribution that moved votes a district has a winner with a
\* share strictly between 0 and 100
C7_Witness ==
    /\ redistribution_clicked
    /\ from_parties # {}
    /\ redistributed # <<>>
    /\ \E i \in DOMAIN house_results :
          redistributed[i].votes # house_results[i].votes
    /\ \E r \in Rows(updated_results) :
          /\ r.total_votes > 0
          /\ 0 < r.winner_percentage.num
          /\ r.winner_percentage.num < 100 * r.winner_percentage.den

\* the colour of one call: the intensity is clamp(pct/100, 0.3, 1.0) and the
\* three channels are integers in 0..255
ColorInRange ==
    (fill # NoCall /\ ~IsNaN(fill.pct)) =>
        /\ fill.intensity.num * 10 >= 3 * fill.intensity.den
        /\ fill.intensity.num <= fill.intensity.den
        /\ (fill.pct.num >= 30 * fill.pct.den) =>
              fill.intensity.num * 100 * fill.pct.den
                  = fill.pct.num * fill.intensity.den
        /\ (fill.pct.num < 30 * fill.pct.den) =>
              fill.intensity.num * 10 = 3 * fill.intensity.den
        /\ fill.r \in 0..255
        /\ fill.g \in 0..255
        /\ fill.b \in 0..255

\* from one call to the next: a percentage that is not smaller gives an
\* intensity that is not smaller
IntensityMonotone ==
    (/\ fill # NoCall /\ ~IsNaN(fill.pct)
     /\ ~IsNaN(fill'.pct)
     /\ fill.pct.num * fill'.pct.den <= fill'.pct.num * fill.pct.den)
    => fill.intensity.num * fill'.intensity.den
           <= fill'.intensity.num * fill.intensity.den

\* C8: for every party and every percentage in 0..100, get_fill_color's
\* intensity is clamp(percentage/100, 0.3, 1.0), it does not decrease when
\* the percentage grows, and the three channels are integers in [0, 255].
C8_ColorBoundedAndMonotone == []ColorInRange /\ [][IntensityMonotone]_vars

\* a Republican district won with a share between 30 and 100: red stays 255
\* and the other channels are blended towards white
C8_Witness ==
    /\ fill.party = "Republican"
    /\ ~IsNaN(fill.pct)
    /\ fill.intensity.num * 10 > 3 * fill.intensity.den
    /\ fill.intensity.num < fill.intensity.den
    /\ fill.r \in {254, 255}
    /\ fill.g > 0
    /\ fill.g < 255

C10_KeepsRowsAndUniqueness ==
    redistribution_clicked =>
        LET n == Len(house_results)
        IN /\ Len(redistributed) >= n
           /\ \A i \in 1..n :
                 /\ redistributed[i].GEOID = house_results[i].GEOID
                 /\ redistributed[i].candidate = house_results[i].candidate
                 /\ redistributed[i].party = house_results[i].party
                 /\ house_results[i].party \in from_parties
                       => redistributed[i].votes = 0
                 /\ (house_results[i].party \notin from_parties
                        /\ house_results[i].party # to_party)
                       => redistributed[i].votes = house_results[i].votes
           /\ \A g \in UnitsOf(house_results) :
                 LET transferred == Transferred(house_results, g, from_parties)
                     added == {i \in (n + 1)..Len(redistributed) :
                                  redistributed[i].GEOID = g}
                     to_rows == {i \in 1..n : /\ house_results[i].GEOID = g
                                              /\ house_results[i].party = to_party}
                 IN IF to_rows # {}
                    THEN /\ added = {}
                         /\ \A i \in to_rows :
                               redistributed[i].votes
                                   = house_results[i].votes + transferred
                    ELSE /\ Cardinality(added) = 1
                         /\ \A i \in added :
                               /\ redistributed[i].candidate
                                      = to_party \o " Candidate"
                               /\ redistributed[i].party = to_party
                               /\ redistributed[i].votes = transferred
           /\ \A i, j \in DOMAIN redistributed :
                 (/\ redistributed[i].GEOID = redistributed[j].GEOID
                  /\ redistributed[i].candidate = redistributed[j].candidate)
                 => i = j

====
